---- MODULE Spec2Model ----
(***************************************************************************)
(* Model of android/src/main/cpp/flux_jni_bridge.cpp: the JNI bridge that  *)
(* lazily resolves the synheart-flux C functions with dlopen/dlsym and     *)
(* forwards the FluxBridge entry points to them.                           *)
(*                                                                         *)
(* Spec   : the entry points called one after the other (one action per    *)
(*          JNI entry point, the whole handler in one step; the handler's  *)
(*          calls are recorded, in order, in last.tr).                     *)
(* SpecMT : several threads inside nativeBehaviorToHsi at once, one action *)
(*          per step of load_flux_functions and of the handler, with the   *)
(*          unsynchronised globals read racily.                            *)
(***************************************************************************)
EXTENDS Integers, Sequences, FiniteSets

\* ------------------------------------------------------------------ bounds
\* processor addresses the native allocator hands out: 1..MaxAddr
MaxAddr == 1
\* largest baseline window passed to nativeProcessorNew
MaxWindow == 1
\* how many symbols the installed library may fail to export
MaxMissing == 1
\* threads of SpecMT
NThreads == 2
\* calls each thread of SpecMT makes
MaxCalls == 2

\* ------------------------------------------------------- symbols (l.25-33)
Required ==
  {"flux_behavior_to_hsi", "flux_free_string", "flux_last_error",
   "flux_behavior_processor_new", "flux_behavior_processor_free",
   "flux_behavior_processor_process",
   "flux_behavior_processor_save_baselines",
   "flux_behavior_processor_load_baselines"}

Symbols == Required \cup {"flux_version"}

ProcessorFns ==
  {"flux_behavior_processor_new", "flux_behavior_processor_free",
   "flux_behavior_processor_process",
   "flux_behavior_processor_save_baselines",
   "flux_behavior_processor_load_baselines"}

\* --------------------------------------------------------------- values
\* the text of a payload: its kind and a number that tells payloads apart
P(kind, v) == [kind |-> kind, v |-> v]

\* a char* : null, or a buffer holding a text
CNull == [null |-> TRUE, s |-> P("", 0)]
CStr(s) == [null |-> FALSE, s |-> s]

\* a jstring : null, or a Java string holding a text
JNull == [null |-> TRUE, s |-> P("", 0)]
JStr(s) == [null |-> FALSE, s |-> s]

\* one recorded step of a handler: k the kind of step, f the function called
\* or the JNI/libc routine, buf the buffer it is given, p the state of the
\* processor pointer it is given, r what it returned, nul whether the call
\* went through a null function pointer
Ev(k, f, buf, p, r, nul) ==
  [k |-> k, f |-> f, buf |-> buf, p |-> p, r |-> r, nul |-> nul]

\* a call through the function pointer g_<f> (the code never tests the
\* pointer at the call)
Call(b, f, buf, p, r) == Ev("call", f, buf, p, r, ~b.g[f])

\* ------------------------------------------------ the native library
\* The library is not part of the repository's sources; it is modelled from
\* the contract of the specification (sections 4 and 6).  n is the library's
\* state: st[a] the state of the processor at address a, win[a] its window,
\* base[a] the number of sessions its baseline holds, err the last error.
Addrs == 1..MaxAddr

NoErr == P("", 0)

NatInit ==
  [st |-> [a \in Addrs |-> "unalloc"], win |-> [a \in Addrs |-> 0],
   base |-> [a \in Addrs |-> 0], err |-> NoErr]

PtrSt(n, h) == IF h \in Addrs THEN n.st[h] ELSE "null"

Min(x, y) == IF x < y THEN x ELSE y

\* flux_behavior_to_hsi: stateless; malformed input gives null and an error
flux_behavior_to_hsi(n, json) ==
  IF json.s.kind = "session"
  THEN [n |-> [n EXCEPT !.err = NoErr], res |-> CStr(P("hsi", json.s.v)),
        r |-> "buf"]
  ELSE [n |-> [n EXCEPT !.err = P("MalformedInput", 0)], res |-> CNull,
        r |-> "null"]

\* flux_behavior_processor_new: an address that is not live, or null
flux_behavior_processor_new(n, w, a) ==
  IF w <= 0
  THEN [n |-> [n EXCEPT !.err = P("InvalidConfiguration", 0)], h |-> 0]
  ELSE IF a \in Addrs /\ n.st[a] # "live"
  THEN [n |-> [n EXCEPT !.st[a] = "live", !.win[a] = w, !.base[a] = 0,
                        !.err = NoErr], h |-> a]
  ELSE [n |-> [n EXCEPT !.err = P("AllocationFailure", 0)], h |-> 0]

\* flux_behavior_processor_free: releases a live processor; on a pointer
\* that is not live the behaviour is undefined (ub: what happens then)
flux_behavior_processor_free(n, h, ub) ==
  IF PtrSt(n, h) = "live"
  THEN [n |-> [n EXCEPT !.st[h] = "freed", !.win[h] = 0, !.base[h] = 0],
        r |-> "void"]
  ELSE [n |-> n, r |-> IF ub = "crash" THEN "crash" ELSE "void"]

\* flux_behavior_processor_process
flux_behavior_processor_process(n, h, json, ub) ==
  IF PtrSt(n, h) = "live"
  THEN IF json.s.kind = "session"
       THEN [n |-> [n EXCEPT !.base[h] = Min(n.base[h] + 1, n.win[h]),
                             !.err = NoErr],
             res |-> CStr(P("result", n.base[h])), r |-> "buf"]
       ELSE [n |-> [n EXCEPT !.err = P("MalformedInput", 0)],
             res |-> CNull, r |-> "null"]
  ELSE IF ub = "value" THEN [n |-> n, res |-> CStr(P("garbage", 0)), r |-> "buf"]
  ELSE IF ub = "crash" THEN [n |-> n, res |-> CNull, r |-> "crash"]
  ELSE [n |-> n, res |-> CNull, r |-> "null"]

\* flux_behavior_processor_save_baselines
flux_behavior_processor_save_baselines(n, h, ub) ==
  IF PtrSt(n, h) = "live"
  THEN [n |-> [n EXCEPT !.err = NoErr],
        res |-> CStr(P("snap", n.base[h])), r |-> "buf"]
  ELSE IF ub = "value" THEN [n |-> n, res |-> CStr(P("garbage", 0)), r |-> "buf"]
  ELSE IF ub = "crash" THEN [n |-> n, res |-> CNull, r |-> "crash"]
  ELSE [n |-> n, res |-> CNull, r |-> "null"]

\* flux_behavior_processor_load_baselines
flux_behavior_processor_load_baselines(n, h, json, ub) ==
  IF PtrSt(n, h) = "live"
  THEN IF json.s.kind = "snap"
       THEN [n |-> [n EXCEPT !.base[h] = json.s.v, !.err = NoErr],
             code |-> 0, r |-> "0"]
       ELSE [n |-> [n EXCEPT !.err = P("MalformedSnapshot", 0)],
             code |-> 1, r |-> "1"]
  ELSE IF ub = "value" THEN [n |-> n, code |-> 0, r |-> "0"]
  ELSE IF ub = "crash" THEN [n |-> n, code |-> 0, r |-> "crash"]
  ELSE [n |-> n, code |-> 1, r |-> "1"]

\* flux_last_error: the last error, or null when there is none
flux_last_error(n) == IF n.err = NoErr THEN CNull ELSE CStr(n.err)

\* flux_version
flux_version == CStr(P("version", 1))

\* --------------------------------------------------- the bridge (l.24-110)
\* b is the bridge's globals: g[s] whether g_<s> is non-null, g_functions_loaded
\* the flag.  lb is the installed library: present whether dlopen
\* finds it, exported the symbols dlsym resolves.
BridgeInit == [g |-> [s \in Symbols |-> FALSE], g_functions_loaded |-> FALSE]

\* the symbol check of l.67-70
AllSymbolsLoaded(g) == \A s \in Symbols : g[s]

ConverterSymbolsLoaded(g) ==
  g["flux_behavior_to_hsi"] /\ g["flux_free_string"] /\ g["flux_last_error"]

AllRequiredLoaded(g) == \A s \in Required : g[s]

\* load_flux_functions (l.37-84): ok is its result, b the globals after it
load_flux_functions(b, lb) ==
  IF b.g_functions_loaded THEN [ok |-> TRUE, b |-> b, tr |-> <<>>]
  ELSE IF ~lb.present
  THEN [ok |-> FALSE, b |-> b,
        tr |-> <<Ev("dlopen", "dlopen", "", "-", "null", FALSE)>>]
  ELSE LET g1 == [s \in Symbols |-> s \in lb.exported]
           t1 == <<Ev("dlopen", "dlopen", "", "-", "handle", FALSE),
                   Ev("dlsym", "dlsym", "", "-", "-", FALSE)>>
       IN IF ~AllRequiredLoaded(g1)
          THEN [ok |-> FALSE, b |-> [b EXCEPT !.g = g1], tr |-> t1]
          ELSE [ok |-> TRUE, b |-> [g |-> g1, g_functions_loaded |-> TRUE],
                tr |-> IF g1["flux_version"]
                       THEN t1 \o <<Call([g |-> g1], "flux_version", "", "-", "buf")>>
                       ELSE t1]

\* jstring_to_cstring (l.87-102): fault names the JNI or libc routine that
\* fails during the call, if any
jstring_to_cstring(jstr, fault) ==
  IF jstr.null THEN [p |-> CNull, tr |-> <<>>]
  ELSE IF fault = "utf"
  THEN [p |-> CNull,
        tr |-> <<Ev("jni", "GetStringUTFChars", "", "-", "null", FALSE)>>]
  ELSE IF fault = "malloc"
  THEN [p |-> CNull,
        tr |-> <<Ev("jni", "GetStringUTFChars", "", "-", "buf", FALSE),
                 Ev("malloc", "malloc", "json_cstr", "-", "null", FALSE),
                 Ev("jni", "ReleaseStringUTFChars", "", "-", "-", FALSE)>>]
  ELSE [p |-> CStr(jstr.s),
        tr |-> <<Ev("jni", "GetStringUTFChars", "", "-", "buf", FALSE),
                 Ev("malloc", "malloc", "json_cstr", "-", "buf", FALSE),
                 Ev("jni", "ReleaseStringUTFChars", "", "-", "-", FALSE)>>]

\* cstring_to_jstring (l.105-110): NewStringUTF reads the buffer named buf
cstring_to_jstring(cstr, buf, fault) ==
  IF cstr.null THEN [j |-> JNull, tr |-> <<>>]
  ELSE IF fault = "newstr"
  THEN [j |-> JNull,
        tr |-> <<Ev("read", "NewStringUTF", buf, "-", "null", FALSE)>>]
  ELSE [j |-> JStr(cstr.s),
        tr |-> <<Ev("read", "NewStringUTF", buf, "-", "jstring", FALSE)>>]

\* free(json_cstr) (l.129, 194, 255)
NoFreeJson == <<>>

FreeJson == <<Ev("free", "free", "json_cstr", "-", "-", FALSE)>>

\* the first step of a trace at which the process dies: a call through a
\* null function pointer, or a native call that crashes
CrashAt(tr) ==
  LET I == {i \in 1..Len(tr) : tr[i].nul \/ tr[i].r = "crash"}
  IN IF I = {} THEN 0 ELSE CHOOSE i \in I : \A j \in I : i <= j

\* what a handler leaves behind: the globals, the library's state, the
\* jstring or the integer it returns and its steps; a handler that crashes
\* returns nothing and its steps end at the crash
Out(b, n, rs, ri, tr) ==
  LET i == CrashAt(tr)
  IN IF i = 0
     THEN [b |-> b, n |-> n, rs |-> rs, ri |-> ri, tr |-> tr, crashed |-> FALSE]
     ELSE [b |-> b, n |-> n, rs |-> JNull, ri |-> 0, tr |-> SubSeq(tr, 1, i),
           crashed |-> TRUE]

\* l.131-142, 196-206, 223-233: a null result is logged with the last
\* error; a buffer is turned into a jstring and handed to flux_free_string
ReturnResultLeaky(b, res, fault) ==
  IF res.null
  THEN [j |-> JNull, tr |-> <<Call(b, "flux_last_error", "", "-", "-")>>]
  ELSE LET js == cstring_to_jstring(res, "result_cstr", fault)
       IN IF js.j.null THEN [j |-> JNull, tr |-> js.tr]
          ELSE [j |-> js.j,
                tr |-> js.tr \o <<Call(b, "flux_free_string", "result_cstr", "-", "void")>>]

ReturnResult(b, res, fault) ==
  IF res.null
  THEN [j |-> JNull, tr |-> <<Call(b, "flux_last_error", "", "-", "-")>>]
  ELSE LET js == cstring_to_jstring(res, "result_cstr", fault)
       IN [j |-> js.j,
           tr |-> js.tr \o <<Call(b, "flux_free_string", "result_cstr", "-", "void")>>]

\* ------------------------------------------------ the entry points
\* c is the call: op the entry point, h the handle, w the window, json the
\* jstring argument, fault and ub the environment's choices during it, a the
\* address the allocator would hand out

\* nativeBehaviorToHsi (l.113-143)
nativeBehaviorToHsi(b, lb, n, c) ==
  LET ld == load_flux_functions(b, lb)
  IN IF ~ld.ok THEN Out(ld.b, n, JNull, 0, ld.tr)
     ELSE LET cv == jstring_to_cstring(c.json, c.fault)
          IN IF cv.p.null THEN Out(ld.b, n, JNull, 0, ld.tr \o cv.tr)
             ELSE LET nr == flux_behavior_to_hsi(n, cv.p)
                      rr == ReturnResult(ld.b, nr.res, c.fault)
                  IN Out(ld.b, nr.n, rr.j, 0,
                         ld.tr \o cv.tr
                         \o <<Call(ld.b, "flux_behavior_to_hsi", "json_cstr", "-", nr.r)>>
                         \o FreeJson \o rr.tr)

\* nativeProcessorNew (l.146-158)
nativeProcessorNew(b, lb, n, c) ==
  LET ld == load_flux_functions(b, lb)
  IN IF ~ld.ok THEN Out(ld.b, n, JNull, 0, ld.tr)
     ELSE LET nr == flux_behavior_processor_new(n, c.w, c.a)
          IN Out(ld.b, nr.n, JNull, nr.h,
                 ld.tr \o <<Call(ld.b, "flux_behavior_processor_new", "", "-",
                                 IF nr.h = 0 THEN "null" ELSE "ptr")>>)

\* nativeProcessorFree (l.161-173)
nativeProcessorFreeUnguarded(b, lb, n, c) ==
  LET ld == load_flux_functions(b, lb)
  IN IF ~ld.ok THEN Out(ld.b, n, JNull, 0, ld.tr)
     ELSE LET nr == flux_behavior_processor_free(n, c.h, c.ub)
          IN Out(ld.b, nr.n, JNull, 0,
                 ld.tr \o <<Call(ld.b, "flux_behavior_processor_free", "",
                                 PtrSt(n, c.h), nr.r)>>)

nativeProcessorFree(b, lb, n, c) ==
  LET ld == load_flux_functions(b, lb)
  IN IF ~ld.ok \/ c.h = 0 THEN Out(ld.b, n, JNull, 0, ld.tr)
     ELSE LET nr == flux_behavior_processor_free(n, c.h, c.ub)
          IN Out(ld.b, nr.n, JNull, 0,
                 ld.tr \o <<Call(ld.b, "flux_behavior_processor_free", "",
                                 PtrSt(n, c.h), nr.r)>>)

\* nativeProcessorProcess (l.176-207)
nativeProcessorProcess(b, lb, n, c) ==
  LET ld == load_flux_functions(b, lb)
  IN IF ~ld.ok \/ c.h = 0 THEN Out(ld.b, n, JNull, 0, ld.tr)
     ELSE LET cv == jstring_to_cstring(c.json, c.fault)
          IN IF cv.p.null THEN Out(ld.b, n, JNull, 0, ld.tr \o cv.tr)
             ELSE LET nr == flux_behavior_processor_process(n, c.h, cv.p, c.ub)
                      rr == ReturnResult(ld.b, nr.res, c.fault)
                  IN Out(ld.b, nr.n, rr.j, 0,
                         ld.tr \o cv.tr
                         \o <<Call(ld.b, "flux_behavior_processor_process",
                                   "json_cstr", PtrSt(n, c.h), nr.r)>>
                         \o FreeJson \o rr.tr)

\* nativeProcessorSaveBaselines (l.210-234)
nativeProcessorSaveBaselines(b, lb, n, c) ==
  LET ld == load_flux_functions(b, lb)
  IN IF ~ld.ok \/ c.h = 0 THEN Out(ld.b, n, JNull, 0, ld.tr)
     ELSE LET nr == flux_behavior_processor_save_baselines(n, c.h, c.ub)
              rr == ReturnResult(ld.b, nr.res, c.fault)
          IN Out(ld.b, nr.n, rr.j, 0,
                 ld.tr
                 \o <<Call(ld.b, "flux_behavior_processor_save_baselines", "",
                           PtrSt(n, c.h), nr.r)>>
                 \o rr.tr)

\* nativeProcessorLoadBaselines (l.237-265)
nativeProcessorLoadBaselines(b, lb, n, c) ==
  LET ld == load_flux_functions(b, lb)
  IN IF ~ld.ok \/ c.h = 0 THEN Out(ld.b, n, JNull, -1, ld.tr)
     ELSE LET cv == jstring_to_cstring(c.json, c.fault)
          IN IF cv.p.null THEN Out(ld.b, n, JNull, -1, ld.tr \o cv.tr)
             ELSE LET nr == flux_behavior_processor_load_baselines(n, c.h, cv.p, c.ub)
                  IN Out(ld.b, nr.n, JNull, nr.code,
                         ld.tr \o cv.tr
                         \o <<Call(ld.b, "flux_behavior_processor_load_baselines",
                                   "json_cstr", PtrSt(n, c.h), nr.r)>>
                         \o FreeJson
                         \o (IF nr.code # 0
                             THEN <<Call(ld.b, "flux_last_error", "", "-", "-")>>
                             ELSE <<>>))

\* nativeFluxVersion (l.268-281)
nativeFluxVersion(b, lb, n, c) ==
  LET ld == load_flux_functions(b, lb)
  IN IF ~ld.ok \/ ~ld.b.g["flux_version"] THEN Out(ld.b, n, JNull, 0, ld.tr)
     ELSE LET js == cstring_to_jstring(flux_version, "ver", c.fault)
          IN Out(ld.b, n, js.j, 0,
                 ld.tr \o <<Call(ld.b, "flux_version", "", "-", "buf")>> \o js.tr)

\* nativeLastError (l.284-299)
nativeLastError(b, lb, n, c) ==
  LET ld == load_flux_functions(b, lb)
  IN IF ~ld.ok THEN Out(ld.b, n, JNull, 0, ld.tr)
     ELSE LET e == flux_last_error(n)
              js == cstring_to_jstring(e, "error", c.fault)
          IN Out(ld.b, n, js.j, 0,
                 ld.tr \o <<Call(ld.b, "flux_last_error", "", "-",
                                 IF e.null THEN "null" ELSE "buf")>> \o js.tr)

\* -------------------------------------------------------------- state
VARIABLES
  lib,         \* the installed library: [present, exported]
  bridge,      \* the bridge's globals: [g, g_functions_loaded]
  nat,         \* the native library's state
  last,        \* the last entry-point call and what it did
  pc,          \* SpecMT: where each thread is
  seen,        \* SpecMT: the globals whose written value a thread has observed
  arg,         \* SpecMT: the jstring each thread's call was given
  ret,         \* SpecMT: what each thread's last call returned
  calls,       \* SpecMT: how many calls each thread has made
  loc,         \* SpecMT: each thread's locals json_cstr and result_cstr
  resolved,    \* SpecMT: how often l.55-75 ran to success
  reloaded,    \* SpecMT: a thread opened the library after the flag was set
  nullCall     \* SpecMT: a thread called through a null function pointer

seqvars == <<bridge, nat, last>>
mtvars == <<pc, seen, arg, ret, calls, loc, resolved, reloaded, nullCall>>
vars == <<lib, bridge, nat, last, pc, seen, arg, ret, calls, loc,
          resolved, reloaded, nullCall>>

Threads == 1..NThreads

\* the libraries an installation may hold: all symbols but at most MaxMissing
Libraries ==
  [present : BOOLEAN,
   exported : {Symbols \ M : M \in {X \in SUBSET Symbols : Cardinality(X) <= MaxMissing}}]

Faults == {"none", "utf", "malloc", "newstr"}
UBs == {"null", "value", "crash"}

\* the handles a caller holds: 0 and what nativeProcessorNew has returned
Handles(n) == {0} \cup {a \in Addrs : n.st[a] # "unalloc"}

SessionJson == {JNull, JStr(P("session", 1)), JStr(P("bad", 0))}
SnapshotJson == {JNull, JStr(P("bad", 0))} \cup {JStr(P("snap", k)) : k \in 0..MaxWindow}

Ops ==
  {"nativeBehaviorToHsi", "nativeProcessorNew", "nativeProcessorFree",
   "nativeProcessorProcess", "nativeProcessorSaveBaselines",
   "nativeProcessorLoadBaselines", "nativeFluxVersion", "nativeLastError"}

HandleOps ==
  {"nativeProcessorFree", "nativeProcessorProcess",
   "nativeProcessorSaveBaselines", "nativeProcessorLoadBaselines"}
JsonOps ==
  {"nativeBehaviorToHsi", "nativeProcessorProcess", "nativeProcessorLoadBaselines"}
StringOps ==
  {"nativeBehaviorToHsi", "nativeProcessorProcess",
   "nativeProcessorSaveBaselines", "nativeFluxVersion", "nativeLastError"}

\* The environment's choices during a call, where they can show: a
\* conversion fault needs a string to convert, undefined behaviour a
\* released pointer that reaches the library.
HandlesOf(op, n) == IF op \in HandleOps THEN Handles(n) ELSE {0}

JsonOf(op) ==
  IF op \in {"nativeBehaviorToHsi", "nativeProcessorProcess"} THEN SessionJson
  ELSE IF op = "nativeProcessorLoadBaselines" THEN SnapshotJson
  ELSE {JNull}

FaultsOf(op, h, json) ==
  LET stopped == op \in HandleOps /\ h = 0
      converts == op \in JsonOps /\ ~json.null /\ ~stopped
  IN {f \in Faults :
        /\ f \in {"utf", "malloc"} => converts
        /\ f = "newstr" => op \in StringOps /\ ~stopped /\ (op \in JsonOps => converts)}

UBsOf(op, n, h, json, fault) ==
  IF /\ op \in HandleOps /\ PtrSt(n, h) = "freed"
     /\ op \in JsonOps => ~json.null /\ fault \notin {"utf", "malloc"}
  THEN IF fault = "none" THEN UBs ELSE UBs \ {"crash"}
  ELSE {"null"}

\* the calls of entry point op a caller can make when the library is in n
CallsOf(op, n) ==
  {c \in [op : {op}, h : HandlesOf(op, n), json : JsonOf(op), fault : Faults,
          ub : UBs,
          w : IF op = "nativeProcessorNew" THEN 0..MaxWindow ELSE {0},
          a : IF op = "nativeProcessorNew" THEN Addrs ELSE {0}] :
     /\ c.fault \in FaultsOf(op, c.h, c.json)
     /\ c.ub \in UBsOf(op, n, c.h, c.json, c.fault)}

\* the JNI dispatch: the handler registered for c.op
Run(b, lb, n, c) ==
  CASE c.op = "nativeBehaviorToHsi" -> nativeBehaviorToHsi(b, lb, n, c)
    [] c.op = "nativeProcessorNew" -> nativeProcessorNew(b, lb, n, c)
    [] c.op = "nativeProcessorFree" -> nativeProcessorFree(b, lb, n, c)
    [] c.op = "nativeProcessorProcess" -> nativeProcessorProcess(b, lb, n, c)
    [] c.op = "nativeProcessorSaveBaselines" -> nativeProcessorSaveBaselines(b, lb, n, c)
    [] c.op = "nativeProcessorLoadBaselines" -> nativeProcessorLoadBaselines(b, lb, n, c)
    [] c.op = "nativeFluxVersion" -> nativeFluxVersion(b, lb, n, c)
    [] c.op = "nativeLastError" -> nativeLastError(b, lb, n, c)

\* whether a finished call reported a failure through its sentinel
Failed(l) ==
  \/ l.op \in {"nativeBehaviorToHsi", "nativeProcessorProcess",
               "nativeProcessorSaveBaselines"} /\ ~l.crashed /\ l.rs.null
  \/ l.op = "nativeProcessorLoadBaselines" /\ ~l.crashed /\ l.ri # 0

NoCall ==
  [op |-> "none", hzero |-> TRUE, jnull |-> TRUE, rs |-> JNull, ri |-> 0,
   tr |-> <<>>, crashed |-> FALSE]

MTInit ==
  /\ pc = [t \in Threads |-> "idle"]
  /\ seen = [t \in Threads |-> {}]
  /\ arg = [t \in Threads |-> JNull]
  /\ ret = [t \in Threads |-> JNull]
  /\ calls = [t \in Threads |-> 0]
  /\ loc = [t \in Threads |-> [json_cstr |-> CNull, result_cstr |-> CNull]]
  /\ resolved = 0
  /\ reloaded = FALSE
  /\ nullCall = FALSE

Init ==
  /\ lib \in Libraries
  /\ bridge = BridgeInit
  /\ nat = NatInit
  /\ last = NoCall
  /\ MTInit

\* one entry-point call, from its entry to its return (or to the crash)
Step(c) ==
  LET out == Run(bridge, lib, nat, c)
  IN /\ ~last.crashed
     /\ bridge' = out.b
     /\ nat' = out.n
     /\ last' = [op |-> c.op, hzero |-> c.h = 0, jnull |-> c.json.null,
                 rs |-> out.rs, ri |-> out.ri, tr |-> out.tr,
                 crashed |-> out.crashed]
     /\ UNCHANGED <<lib, mtvars>>

BehaviorToHsi == \E c \in CallsOf("nativeBehaviorToHsi", nat) : Step(c)
ProcessorNew == \E c \in CallsOf("nativeProcessorNew", nat) : Step(c)
ProcessorFree == \E c \in CallsOf("nativeProcessorFree", nat) : Step(c)
ProcessorProcess == \E c \in CallsOf("nativeProcessorProcess", nat) : Step(c)
ProcessorSaveBaselines == \E c \in CallsOf("nativeProcessorSaveBaselines", nat) : Step(c)
ProcessorLoadBaselines == \E c \in CallsOf("nativeProcessorLoadBaselines", nat) : Step(c)
FluxVersion == \E c \in CallsOf("nativeFluxVersion", nat) : Step(c)
LastError == \E c \in CallsOf("nativeLastError", nat) : Step(c)

Next ==
  \/ BehaviorToHsi
  \/ ProcessorNew
  \/ ProcessorFree
  \/ ProcessorProcess
  \/ ProcessorSaveBaselines
  \/ ProcessorLoadBaselines
  \/ FluxVersion
  \/ LastError

Spec == Init /\ [][Next]_vars

\* ------------------------------------ nativeBehaviorToHsi, thread by thread
\* The globals of l.25-34 are plain variables written and read with no
\* synchronisation.  A thread reads the value in memory, or, as long as it
\* has neither written the variable nor observed its written value, the
\* initial value (null, false) still.
Cur(x) == IF x = "g_functions_loaded" THEN bridge.g_functions_loaded ELSE bridge.g[x]

RacyRead(t, x) == {v \in BOOLEAN : v = Cur(x) \/ (v = FALSE /\ x \notin seen[t])}

Observe(t, x, v) == IF v THEN [seen EXCEPT ![t] = @ \cup {x}] ELSE seen

\* the call returns to Java
Return(t, j) ==
  /\ pc' = [pc EXCEPT ![t] = "idle"]
  /\ ret' = [ret EXCEPT ![t] = j]

\* a call through a null function pointer ends the process
Segv(t) ==
  /\ nullCall' = TRUE
  /\ pc' = [pc EXCEPT ![t] = "crashed"]

\* a thread enters nativeBehaviorToHsi (l.114-119)
MT_Enter(t) ==
  /\ ~nullCall /\ pc[t] = "idle" /\ calls[t] < MaxCalls
  /\ \E j \in {JNull, JStr(P("session", t)), JStr(P("bad", 0))} :
       arg' = [arg EXCEPT ![t] = j]
  /\ calls' = [calls EXCEPT ![t] = @ + 1]
  /\ pc' = [pc EXCEPT ![t] = "l38"]
  /\ UNCHANGED <<lib, seqvars, seen, ret, loc, resolved, reloaded, nullCall>>

\* l.38-40: if (g_functions_loaded) return true
MT_CheckLoaded(t) ==
  /\ ~nullCall /\ pc[t] = "l38"
  /\ \E v \in RacyRead(t, "g_functions_loaded") :
       /\ seen' = Observe(t, "g_functions_loaded", v)
       /\ pc' = [pc EXCEPT ![t] = IF v THEN "l123" ELSE "l44"]
  /\ UNCHANGED <<lib, seqvars, arg, ret, calls, loc, resolved, reloaded, nullCall>>

\* l.44-53: dlopen; without the library the call returns null
MT_Dlopen(t) ==
  /\ ~nullCall /\ pc[t] = "l44"
  /\ reloaded' = (reloaded \/ bridge.g_functions_loaded)
  /\ IF lib.present
     THEN pc' = [pc EXCEPT ![t] = "l56"] /\ ret' = ret
     ELSE Return(t, JNull)
  /\ UNCHANGED <<lib, seqvars, seen, arg, calls, loc, resolved, nullCall>>

\* l.56-64: the nine dlsym results are stored in the globals
MT_Dlsym(t) ==
  /\ ~nullCall /\ pc[t] = "l56"
  /\ bridge' = [bridge EXCEPT !.g = [s \in Symbols |-> s \in lib.exported]]
  /\ seen' = [seen EXCEPT ![t] = @ \cup Symbols]
  /\ reloaded' = (reloaded \/ bridge.g_functions_loaded)
  /\ pc' = [pc EXCEPT ![t] = "l67"]
  /\ UNCHANGED <<lib, nat, last, arg, ret, calls, loc, resolved, nullCall>>

\* l.67-73: the check of the required pointers, which the thread has just
\* written itself
MT_CheckSymbols(t) ==
  /\ ~nullCall /\ pc[t] = "l67"
  /\ IF AllRequiredLoaded(bridge.g)
     THEN pc' = [pc EXCEPT ![t] = "l75"] /\ ret' = ret
     ELSE Return(t, JNull)
  /\ UNCHANGED <<lib, seqvars, seen, arg, calls, loc, resolved, reloaded, nullCall>>

\* l.75-83: g_functions_loaded = true, the version is logged, return true
MT_SetLoaded(t) ==
  /\ ~nullCall /\ pc[t] = "l75"
  /\ bridge' = [bridge EXCEPT !.g_functions_loaded = TRUE]
  /\ seen' = [seen EXCEPT ![t] = @ \cup {"g_functions_loaded"}]
  /\ resolved' = resolved + 1
  /\ pc' = [pc EXCEPT ![t] = "l123"]
  /\ UNCHANGED <<lib, nat, last, arg, ret, calls, loc, reloaded, nullCall>>

\* l.123-126: jstring_to_cstring; null ends the call
MT_ToCString(t) ==
  /\ ~nullCall /\ pc[t] = "l123"
  /\ \E fault \in {"none", "utf", "malloc"} :
       LET cv == jstring_to_cstring(arg[t], fault)
       IN IF cv.p.null
          THEN Return(t, JNull) /\ loc' = loc
          ELSE /\ loc' = [loc EXCEPT ![t].json_cstr = cv.p]
               /\ pc' = [pc EXCEPT ![t] = "l128"]
               /\ ret' = ret
  /\ UNCHANGED <<lib, seqvars, seen, arg, calls, resolved, reloaded, nullCall>>

\* l.128: the call through g_flux_behavior_to_hsi
MT_CallToHsi(t) ==
  /\ ~nullCall /\ pc[t] = "l128"
  /\ \E v \in RacyRead(t, "flux_behavior_to_hsi") :
       IF v
       THEN LET nr == flux_behavior_to_hsi(nat, loc[t].json_cstr)
            IN /\ nat' = nr.n
               /\ loc' = [loc EXCEPT ![t].result_cstr = nr.res]
               /\ seen' = Observe(t, "flux_behavior_to_hsi", v)
               /\ pc' = [pc EXCEPT ![t] = "l129"]
               /\ nullCall' = nullCall
       ELSE Segv(t) /\ UNCHANGED <<nat, loc, seen>>
  /\ UNCHANGED <<lib, bridge, last, arg, ret, calls, resolved, reloaded>>

\* l.129: free(json_cstr)
MT_FreeJson(t) ==
  /\ ~nullCall /\ pc[t] = "l129"
  /\ loc' = [loc EXCEPT ![t].json_cstr = CNull]
  /\ pc' = [pc EXCEPT ![t] = "l131"]
  /\ UNCHANGED <<lib, seqvars, seen, arg, ret, calls, resolved, reloaded, nullCall>>

\* l.131-142: a null result is logged through g_flux_last_error; a buffer is
\* converted and released through g_flux_free_string
MT_ReturnResult(t) ==
  /\ ~nullCall /\ pc[t] = "l131"
  /\ LET f == IF loc[t].result_cstr.null THEN "flux_last_error"
              ELSE "flux_free_string"
     IN \E v \in RacyRead(t, f), fault \in {"none", "newstr"} :
          IF v
          THEN /\ Return(t, cstring_to_jstring(loc[t].result_cstr, "result_cstr", fault).j)
               /\ loc' = [loc EXCEPT ![t].result_cstr = CNull]
               /\ seen' = Observe(t, f, v)
               /\ nullCall' = nullCall
          ELSE Segv(t) /\ UNCHANGED <<ret, loc, seen>>
  /\ UNCHANGED <<lib, seqvars, arg, calls, resolved, reloaded>>

NextMT ==
  \E t \in Threads :
    \/ MT_Enter(t)
    \/ MT_CheckLoaded(t)
    \/ MT_Dlopen(t)
    \/ MT_Dlsym(t)
    \/ MT_CheckSymbols(t)
    \/ MT_SetLoaded(t)
    \/ MT_ToCString(t)
    \/ MT_CallToHsi(t)
    \/ MT_FreeJson(t)
    \/ MT_ReturnResult(t)

SpecMT == Init /\ [][NextMT]_vars

\* ---------------------------------------------------------- the claims
\* the steps of the last call that satisfy a test
Calls(f) == {i \in 1..Len(last.tr) : last.tr[i].k = "call" /\ last.tr[i].f = f}
CallsIn(F) == {i \in 1..Len(last.tr) : last.tr[i].k = "call" /\ last.tr[i].f \in F}

ResultFns ==
  {"flux_behavior_to_hsi", "flux_behavior_processor_process",
   "flux_behavior_processor_save_baselines"}

\* C1: a result buffer the library returned to nativeBehaviorToHsi,
\* nativeProcessorProcess or nativeProcessorSaveBaselines is handed to
\* flux_free_string exactly once on every path, also when NewStringUTF
\* fails, and is never read after that; nothing else is handed to it.
C1_ResultReleasedOnce ==
  LET got == {i \in CallsIn(ResultFns) : last.tr[i].r = "buf"}
      rel == {i \in Calls("flux_free_string") : last.tr[i].buf = "result_cstr"}
      rd == {i \in 1..Len(last.tr) :
               last.tr[i].k = "read" /\ last.tr[i].buf = "result_cstr"}
  IN /\ Cardinality(got) <= 1
     /\ Cardinality(rel) = Cardinality(got)
     /\ Calls("flux_free_string") = rel
     /\ \A i \in got, j \in rel : i < j
     /\ \A i \in rd, j \in rel : i < j

\* C1 witness: nativeProcessorProcess got a buffer, NewStringUTF failed on
\* it, and the buffer was released all the same
C1_Witness ==
  /\ last.op = "nativeProcessorProcess"
  /\ \E i \in 1..Len(last.tr) :
       /\ last.tr[i].k = "read" /\ last.tr[i].buf = "result_cstr"
       /\ last.tr[i].r = "null"
  /\ Calls("flux_free_string") # {}
  /\ last.rs.null

\* C2: disposing is idempotent: the bridge never calls
\* flux_behavior_processor_free on a processor that is already released.
C2_FreeAtMostOnce ==
  \A i \in Calls("flux_behavior_processor_free") : last.tr[i].p = "live"

\* C3: after nativeProcessorFree(h), process, save and load on h return
\* their failure sentinel and the released pointer never reaches the library.
C3_NoUseAfterFree ==
  \A i \in CallsIn({"flux_behavior_processor_process",
                    "flux_behavior_processor_save_baselines",
                    "flux_behavior_processor_load_baselines"}) :
    last.tr[i].p = "live"

\* C4: a nativeLastError call made right after a call that reported a
\* failure returns a non-empty error detail.
C4_FailureHasDetail ==
  [][(Failed(last) /\ last'.op = "nativeLastError") => ~last'.rs.null]_vars

\* the conversion of the json argument failed, or there was none to convert
NotConverted(l) ==
  \/ l.jnull
  \/ \E i \in 1..Len(l.tr) :
       l.tr[i].f \in {"GetStringUTFChars", "malloc"} /\ l.tr[i].r = "null"

Sentinel(l) ==
  /\ l.op = "nativeProcessorLoadBaselines" => l.ri = -1
  /\ l.op \in {"nativeProcessorProcess", "nativeProcessorSaveBaselines"} => l.rs.null

\* C5: a call of nativeProcessorFree, -Process, -SaveBaselines or
\* -LoadBaselines with handle 0, or with the functions not loaded, or with a
\* json argument that cannot be converted, returns its sentinel, invokes no
\* native processor function and leaves the library's state as it was.
C5_FailurePathsTouchNothing ==
  [][(/\ last'.op \in HandleOps
      /\ \/ last'.hzero
         \/ ~bridge'.g_functions_loaded
         \/ last'.op \in JsonOps /\ NotConverted(last'))
     => (/\ nat' = nat
         /\ Sentinel(last')
         /\ ~last'.crashed
         /\ \A i \in 1..Len(last'.tr) :
              ~(last'.tr[i].k = "call" /\ last'.tr[i].f \in ProcessorFns))]_vars

\* C5 witness: nativeProcessorLoadBaselines on a live processor with a json
\* that could not be copied returned -1
C5_Witness ==
  /\ last.op = "nativeProcessorLoadBaselines"
  /\ ~last.hzero /\ ~last.jnull /\ NotConverted(last)
  /\ last.ri = -1
  /\ \E a \in Addrs : nat.st[a] = "live" /\ nat.base[a] > 0

\* what a call did, leaving aside g_flux_version and the logging call of it
NotVersionCall(e) == ~(e.k = "call" /\ e.f = "flux_version")
Visible(out) ==
  [rs |-> out.rs, ri |-> out.ri, n |-> out.n, crashed |-> out.crashed,
   flag |-> out.b.g_functions_loaded,
   g |-> [s \in Required |-> out.b.g[s]],
   tr |-> SelectSeq(out.tr, NotVersionCall)]

\* the globals had flux_version been exported too
WithVersion(b) ==
  [b EXCEPT !.g = [s \in Symbols |->
     IF s = "flux_version" THEN b.g["flux_behavior_to_hsi"] ELSE b.g[s]]]

\* a call that does something else when flux_version is exported too
VersionShows(c) ==
  Visible(Run(bridge, lib, nat, c))
    # Visible(Run(WithVersion(bridge), [lib EXCEPT !.exported = Symbols], nat, c))

\* C6: with a library that exports the eight required symbols but not
\* flux_version, load_flux_functions succeeds, nativeFluxVersion returns
\* null without calling g_flux_version, and every other entry point does
\* what it does when flux_version is exported.
C6_VersionOptional ==
  (lib.present /\ lib.exported = Required) =>
    /\ last.op # "none" => bridge.g_functions_loaded
    /\ last.op = "nativeFluxVersion" => last.rs.null
    /\ Calls("flux_version") = {}
    /\ \A op \in Ops \ {"nativeFluxVersion"} :
         \A c \in CallsOf(op, nat) : ~VersionShows(c)

\* C6 witness: without flux_version a processor was made and used, and
\* nativeFluxVersion has just returned null
C6_Witness ==
  /\ lib.present /\ lib.exported = Required
  /\ bridge.g_functions_loaded
  /\ last.op = "nativeFluxVersion" /\ last.rs.null
  /\ \E a \in Addrs : nat.st[a] = "live" /\ nat.base[a] > 0

\* the value an entry point returns when it gives up
GaveUp(l) ==
  /\ l.rs.null
  /\ l.ri = IF l.op = "nativeProcessorLoadBaselines" THEN -1 ELSE 0

\* C9: g_functions_loaded is true only if the eight required pointers are
\* non-null; it never goes back to false; and while it is false every
\* entry point returns its sentinel without calling a native function,
\* even when some pointers are already set.
C9_LoadedFlag ==
  /\ [](/\ bridge.g_functions_loaded => \A s \in Required : bridge.g[s]
        /\ (~bridge.g_functions_loaded /\ last.op # "none") =>
             /\ GaveUp(last)
             /\ \A i \in 1..Len(last.tr) : last.tr[i].k # "call")
  /\ [][bridge.g_functions_loaded => bridge'.g_functions_loaded]_vars

\* C9 witness: a required symbol is missing, some pointers are set, the
\* flag is false and nativeProcessorNew returned 0
C9_Witness ==
  /\ ~bridge.g_functions_loaded
  /\ \E s \in Required : bridge.g[s]
  /\ \E s \in Required : ~bridge.g[s]
  /\ last.op = "nativeProcessorNew" /\ last.ri = 0

\* C10: the copy of the json argument made by jstring_to_cstring is freed
\* exactly once on every path of nativeBehaviorToHsi, nativeProcessorProcess
\* and nativeProcessorLoadBaselines that returns, after the one native call
\* that reads it.
C10_JsonCopyFreedOnce ==
  LET mal == {i \in 1..Len(last.tr) :
                last.tr[i].k = "malloc" /\ last.tr[i].r = "buf"}
      use == {i \in 1..Len(last.tr) :
                last.tr[i].k = "call" /\ last.tr[i].buf = "json_cstr"}
      fr == {i \in 1..Len(last.tr) :
               last.tr[i].k = "free" /\ last.tr[i].buf = "json_cstr"}
  IN ~last.crashed =>
       /\ Cardinality(mal) <= 1
       /\ Cardinality(fr) = Cardinality(mal)
       /\ Cardinality(use) = Cardinality(mal)
       /\ \A m \in mal, u \in use : m < u
       /\ \A u \in use, f \in fr : u < f

\* C10 witness: nativeProcessorLoadBaselines was refused by the library and
\* the copy was freed after the call
C10_Witness ==
  /\ last.op = "nativeProcessorLoadBaselines"
  /\ last.ri # 0 /\ ~last.crashed
  /\ \E i \in Calls("flux_behavior_processor_load_baselines") :
       \E j \in 1..Len(last.tr) : last.tr[j].k = "free" /\ i < j

\* C7: nativeBehaviorToHsi may be called from several threads at once: no
\* thread calls through a null function pointer, and each call returns the
\* conversion of its own input or null.
C7_ConcurrentConverter ==
  /\ ~nullCall
  /\ \A t \in Threads :
       (pc[t] = "idle" /\ calls[t] > 0) =>
         ret[t].null \/ ret[t].s = P("hsi", arg[t].s.v)

\* C8: the resolution of l.55-75 runs to success at most once, and once
\* g_functions_loaded is true no call opens the library or stores a
\* function pointer again.
C8_LoadedOnce == resolved <= 1 /\ ~reloaded

====
